---------------------------- MODULE Spec2Model ----------------------------
(***************************************************************************)
(* A model of the askgeo-mvp backend: the index builder                    *)
(* (backend/app/rag/build_index.py), the retriever                         *)
(* (backend/app/rag/retriever.py), the question-answering handler          *)
(* (backend/app/routers/ask.py) and the ingestion endpoints with their     *)
(* background task (backend/app/routers/ingest.py).                        *)
(*                                                                         *)
(* Conventions.                                                            *)
(*  - A text is modelled by the tokens tokenizer.encode gives it; tokens   *)
(*    are named by their 0-based offsets, so a text of n tokens is the     *)
(*    offsets 0..n-1 and a Python slice tokens[lo:hi] is the pair lo, hi.  *)
(*  - Python's None is the string "None" for optional strings and 0 for    *)
(*    optional timestamps (the clock starts at 1).                         *)
(*  - A similarity score is a whole number of 1/ScoreUnit, a distance a    *)
(*    whole number of tenths.                                              *)
(*  - A call of the embedding API, of the chat API, of the scraper or of    *)
(*    the vector store either returns or raises; which is a                *)
(*    nondeterministic choice.                                             *)
(***************************************************************************)
EXTENDS Integers, Sequences, FiniteSets, TLC

VARIABLES
    docsFile,    \* data/uwp_docs.jsonl: the sequence of scraped documents
    coll,        \* the vector collection "uwp" of the Chroma store
    collSeq,     \* how many collections were ever created (their identities)
    statusFile,  \* data/ingest_status.json
    statsFile,   \* data/stats.json
    clock,       \* what datetime.now() reads; it ticks when a run begins
    proc,        \* the index-builder CLI (process 0) and the background tasks
    started,     \* how many builds or ingestion runs were started so far
    resp,        \* the response of the latest POST /ingest/start
    ask          \* the POST /ask request being served

vars == <<docsFile, coll, collSeq, statusFile, statsFile, clock, proc,
          started, resp, ask>>

-----------------------------------------------------------------------------
(* Program constants *)

CHUNK_SIZE == 350
BATCH_SIZE == 100
\* The scores are counted in 1/ScoreUnit: 1 - d^2/4 with d in tenths is
\* (400 - d10^2)/400.
ScoreUnit == 4 * 10 * 10
\* SIMILARITY_THRESHOLD = 0.2
SIMILARITY_THRESHOLD == ScoreUnit \div 5

None == "None"
Untitled == "Untitled"

-----------------------------------------------------------------------------
(* Bounds of the model *)

MaxDocs == 2       \* documents in the document store
MaxStarted == 2    \* builds (CLI) or ingestion runs (server) ever started
MaxChunks == 3     \* chunks a stubbed retriever hands to ask_question
MaxDistance == 25  \* the largest store distance considered, in tenths

Min(a, b) == IF a <= b THEN a ELSE b
Max(a, b) == IF a >= b THEN a ELSE b

Cli == 0
\* The threads of the pool that run background tasks: two of them, so that
\* any two runs may overlap.
Tasks == {1, 2}
Procs == {Cli} \cup Tasks

\* The documents a crawl may produce: token counts on both sides of the
\* chunk boundaries, titles present, empty and missing.
Documents ==
    {[url |-> "https://x.edu/lib", title |-> "Library", ntokens |-> 2 * CHUNK_SIZE],
     [url |-> "https://x.edu/about", title |-> None, ntokens |-> CHUNK_SIZE + 1],
     [url |-> "https://x.edu/lib", title |-> "", ntokens |-> 0]}

RECURSIVE SeqsUpTo(_, _)
SeqsUpTo(S, n) ==
    IF n = 0 THEN {<<>>}
    ELSE LET shorter == SeqsUpTo(S, n - 1)
         IN  shorter \cup {Append(s, x) : s \in {q \in shorter : Len(q) = n - 1}, x \in S}

-----------------------------------------------------------------------------
(* IndexBuilder.chunk_text *)

\* for i in range(0, len(tokens), CHUNK_SIZE): the chunks from offset i on,
\* appended to the chunks made so far.
RECURSIVE ChunkFrom(_, _, _, _)
ChunkFrom(n, metadata, i, chunks) ==
    IF i >= n THEN chunks
    ELSE LET lo == i
             hi == Min(i + CHUNK_SIZE, n)      \* tokens[i:i + CHUNK_SIZE]
             token_count == hi - lo            \* len(chunk_tokens)
             chunk_metadata == [url |-> metadata.url, title |-> metadata.title,
                                page_index |-> metadata.page_index,
                                token_count |-> token_count,
                                chunk_index |-> Len(chunks)]
             \* (chunk_text, chunk_metadata, token_count); the text is the
             \* decoded window
             chunk == [text |-> <<lo, hi>>, metadata |-> chunk_metadata,
                       token_count |-> token_count]
         IN  ChunkFrom(n, metadata, i + CHUNK_SIZE, Append(chunks, chunk))

\* chunk_text losing the final, shorter window.
chunk_text_DropsTail(ntokens, metadata) ==
    ChunkFrom(ntokens - (ntokens % CHUNK_SIZE), metadata, 0, <<>>)

chunk_text(ntokens, metadata) == ChunkFrom(ntokens, metadata, 0, <<>>)

\* doc.get("title") or "Untitled"
NormTitle(title) == IF title = None \/ title = "" THEN Untitled ELSE title

\* The loop over enumerate(documents) of build_index: all_chunks.
RECURSIVE ChunkAll(_, _, _)
ChunkAll(documents, page_idx, all_chunks) ==
    IF page_idx >= Len(documents) THEN all_chunks
    ELSE LET doc == documents[page_idx + 1]
             metadata == [url |-> doc.url, title |-> NormTitle(doc.title),
                          page_index |-> page_idx]
         IN  ChunkAll(documents, page_idx + 1,
                      all_chunks \o chunk_text(doc.ntokens, metadata))

all_chunks_of(documents) == ChunkAll(documents, 0, <<>>)

\* An id that leaves the page out.
ChunkId_NoPage(chunk_meta) == ToString(chunk_meta.chunk_index)

\* f"{page_idx}-{chunk_idx}"
ChunkId(chunk_meta) ==
    ToString(chunk_meta.page_index) \o "-" \o ToString(chunk_meta.chunk_index)


-----------------------------------------------------------------------------
(* The state of one process: the locals of build_index and run_ingest_task *)

NoStats == [created_at |-> 0, total_documents |-> 0, total_chunks |-> 0]

ProcInit ==
    [pc |-> "idle", reset |-> TRUE, documents |-> <<>>, handle |-> 0,
     all_chunks |-> <<>>, batch_start |-> 0, embed_calls |-> 0, ids |-> <<>>,
     \* the batch_start and batch_end of every turn of the batch loop so far
     batches |-> <<>>,
     stats |-> NoStats, err |-> None, started_at |-> 0, completed_at |-> 0,
     pages_scraped |-> 0,
     \* not a local of the code: whether delete_collection raised though the
     \* collection was there, which the bare except hides
     delete_raised |-> FALSE]

NoColl == [exists |-> FALSE, id |-> 0, items |-> {}]

ItemIds(items) == {e.id : e \in items}

-----------------------------------------------------------------------------
(* IndexBuilder.build_index, one action per call on shared state *)

\* Load documents: the lines of the JSONL file.
BuildLoad(p) ==
    /\ proc[p].pc = "load"
    /\ proc' = [proc EXCEPT ![p].documents = docsFile,
                            ![p].pc = IF proc[p].reset THEN "delete" ELSE "create"]
    /\ UNCHANGED <<docsFile, coll, collSeq, statusFile, statsFile, clock,
                   started, resp, ask>>

\* if reset: try: delete_collection(name) except: pass.  Whatever
\* delete_collection raises is swallowed by the bare except.
BuildDelete(p) ==
    /\ proc[p].pc = "delete"
    /\ \/ \* the collection is deleted, or the call raises because there is
          \* none
          /\ coll' = IF coll.exists THEN NoColl ELSE coll
          /\ proc' = [proc EXCEPT ![p].pc = "create"]
       \/ \* the call raises because the store fails: the collection stays
          /\ coll.exists
          /\ UNCHANGED coll
          /\ proc' = [proc EXCEPT ![p].pc = "create", ![p].delete_raised = TRUE]
    /\ UNCHANGED <<docsFile, collSeq, statusFile, statsFile, clock,
                   started, resp, ask>>

\* get_or_create_collection(name), then the chunking of every document
\* (local to build_index).
BuildCreate(p) ==
    /\ proc[p].pc = "create"
    /\ \/ \* get_or_create_collection raises: the store fails
          /\ proc' = [proc EXCEPT ![p].pc = "raised", ![p].err = "store"]
          /\ UNCHANGED <<coll, collSeq>>
       \/ /\ coll.exists
          /\ UNCHANGED <<coll, collSeq>>
          /\ proc' = [proc EXCEPT ![p].handle = coll.id,
                                  ![p].all_chunks = all_chunks_of(proc[p].documents),
                                  ![p].batch_start = 0,
                                  ![p].pc = "batch"]
       \/ /\ ~coll.exists
          /\ collSeq' = collSeq + 1
          /\ coll' = [exists |-> TRUE, id |-> collSeq + 1, items |-> {}]
          /\ proc' = [proc EXCEPT ![p].handle = collSeq + 1,
                                  ![p].all_chunks = all_chunks_of(proc[p].documents),
                                  ![p].batch_start = 0,
                                  ![p].pc = "batch"]
    /\ UNCHANGED <<docsFile, statusFile, statsFile, clock, started, resp, ask>>

\* texts = [chunk[0] for chunk in batch]; metadatas = [chunk[1] ...]
BatchTexts(batch) == [i \in 1..Len(batch) |-> batch[i].text]
BatchMetadatas(batch) == [i \in 1..Len(batch) |-> batch[i].metadata]

\* embed_texts, when the API returns: one vector per text, in order.
embed_texts(texts) == [i \in 1..Len(texts) |-> [vec_of |-> texts[i]]]

\* ids.append(f"{page_idx}-{chunk_idx}") for each chunk_meta in metadatas
BatchIds(metadatas) == [i \in 1..Len(metadatas) |-> ChunkId(metadatas[i])]

\* What collection.add stores: ids, embeddings, documents and metadatas are
\* parallel lists.
BatchEntries(batch) ==
    LET texts == BatchTexts(batch)
        metadatas == BatchMetadatas(batch)
        embeddings == embed_texts(texts)
        ids == BatchIds(metadatas)
    IN  {[id |-> ids[i], embedding |-> embeddings[i],
          document |-> texts[i], metadata |-> metadatas[i]] : i \in 1..Len(batch)}

\* min(batch_start + BATCH_SIZE, total)
BatchEnd(all_chunks, batch_start) == Min(batch_start + BATCH_SIZE, Len(all_chunks))

\* A slice that stops one chunk short of batch_end.
BatchAt_StopsShort(all_chunks, batch_start) ==
    SubSeq(all_chunks, batch_start + 1, BatchEnd(all_chunks, batch_start) - 1)

\* The batch that starts at batch_start: all_chunks[batch_start:batch_end].
BatchAt(all_chunks, batch_start) ==
    LET batch_end == Min(batch_start + BATCH_SIZE, Len(all_chunks))
    IN  SubSeq(all_chunks, batch_start + 1, batch_end)

\* One turn of the batch loop: embed_texts, then collection.add.
BuildBatch(p) ==
    /\ proc[p].pc = "batch"
    /\ proc[p].batch_start < Len(proc[p].all_chunks)
    /\ LET batch == BatchAt(proc[p].all_chunks, proc[p].batch_start)
           entries == BatchEntries(batch)
           batch_end == BatchEnd(proc[p].all_chunks, proc[p].batch_start)
           called == [proc EXCEPT ![p].embed_calls = @ + 1,
                                  ![p].batches = Append(@, <<proc[p].batch_start,
                                                            batch_end>>)]
           \* ids holds the ids of every batch so far, not only the latest
           embedded == [called EXCEPT ![p].ids = @ \o BatchIds(BatchMetadatas(batch))]
       IN  \/ \* the embedding API raises
              /\ proc' = [called EXCEPT ![p].pc = "raised", ![p].err = "embed"]
              /\ UNCHANGED coll
           \/ \* collection.add raises: the store fails
              /\ proc' = [embedded EXCEPT ![p].pc = "raised", ![p].err = "store"]
              /\ UNCHANGED coll
           \/ \* collection.add raises: the collection behind the handle
              \* was deleted
              /\ ~(coll.exists /\ coll.id = proc[p].handle)
              /\ proc' = [embedded EXCEPT ![p].pc = "raised", ![p].err = "no collection"]
              /\ UNCHANGED coll
           \/ \* an id is already in the collection: older stores raise,
              \* newer ones keep the entry they hold
              /\ coll.exists /\ coll.id = proc[p].handle
              /\ ItemIds(entries) \cap ItemIds(coll.items) # {}
              /\ \/ /\ proc' = [embedded EXCEPT ![p].pc = "raised", ![p].err = "duplicate id"]
                    /\ UNCHANGED coll
                 \/ /\ coll' = [coll EXCEPT !.items =
                           @ \cup {e \in entries : e.id \notin ItemIds(coll.items)}]
                    /\ proc' = [embedded EXCEPT ![p].batch_start = @ + BATCH_SIZE]
           \/ /\ coll.exists /\ coll.id = proc[p].handle
              /\ ItemIds(entries) \cap ItemIds(coll.items) = {}
              /\ coll' = [coll EXCEPT !.items = @ \cup entries]
              /\ proc' = [embedded EXCEPT ![p].batch_start = @ + BATCH_SIZE]
    /\ UNCHANGED <<docsFile, collSeq, statusFile, statsFile, clock,
                   started, resp, ask>>

\* The stats build_index returns once every batch is stored.
BuildStats(p) ==
    [created_at |-> clock,
     total_documents |-> Len(proc[p].documents),
     total_chunks |-> Len(proc[p].all_chunks)]

BuildReturn(p) ==
    /\ proc[p].pc = "batch"
    /\ proc[p].batch_start >= Len(proc[p].all_chunks)
    /\ proc' = [proc EXCEPT ![p].stats = BuildStats(p), ![p].pc = "built"]
    /\ UNCHANGED <<docsFile, coll, collSeq, statusFile, statsFile, clock,
                   started, resp, ask>>

-----------------------------------------------------------------------------
(* The command line of build_index.py, and of the scraper that writes the  *)
(* document store it reads                                                 *)

\* scrape_uwp's command line: a new document store.
CliScrape(docs) ==
    /\ proc[Cli].pc = "idle"
    /\ docs # docsFile
    /\ docsFile' = docs
    /\ UNCHANGED <<coll, collSeq, statusFile, statsFile, clock, proc,
                   started, resp, ask>>

\* main(): builder.build_index(args.input, reset=not args.no_reset)
CliStart(reset) ==
    /\ proc[Cli].pc = "idle"
    /\ started < MaxStarted
    /\ started' = started + 1
    /\ proc' = [proc EXCEPT ![Cli] = [ProcInit EXCEPT !.pc = "load", !.reset = reset]]
    /\ UNCHANGED <<docsFile, coll, collSeq, statusFile, statsFile, clock,
                   resp, ask>>

\* builder.save_stats(stats, args.stats_output), and main returns.
CliSaveStats ==
    /\ proc[Cli].pc = "built"
    /\ statsFile' = proc[Cli].stats
    /\ proc' = [proc EXCEPT ![Cli] = ProcInit]
    /\ UNCHANGED <<docsFile, coll, collSeq, statusFile, clock, started, resp, ask>>

\* An exception of build_index ends the command with a traceback.
CliCrash ==
    /\ proc[Cli].pc = "raised"
    /\ proc' = [proc EXCEPT ![Cli] = ProcInit]
    /\ UNCHANGED <<docsFile, coll, collSeq, statusFile, statsFile, clock,
                   started, resp, ask>>

-----------------------------------------------------------------------------
(* Retriever *)

\* The score without its clamp.
Similarity_Unclamped(distance) == ScoreUnit - distance * distance

\* similarity = max(0, 1 - (distance ** 2) / 4), in 1/ScoreUnit for a
\* distance in tenths
Similarity(distance) == Max(0, ScoreUnit - distance * distance)

\* A query that drops the results below the threshold.
FormatResults_Filtered(results) ==
    SelectSeq([i \in 1..Len(results) |->
                  [text |-> results[i].entry.document,
                   url |-> results[i].entry.metadata.url,
                   title |-> results[i].entry.metadata.title,
                   score |-> Similarity(results[i].distance)]],
              LAMBDA c : c.score >= SIMILARITY_THRESHOLD)

\* The loop of query over the results the store returned, nearest first:
\* one retrieved chunk per result, in the store's order.
FormatResults(results) ==
    [i \in 1..Len(results) |->
        [text |-> results[i].entry.document,
         url |-> results[i].entry.metadata.url,
         title |-> results[i].entry.metadata.title,
         score |-> Similarity(results[i].distance)]]

\* The gate with > for >=.
has_confident_match_Strict(chunks) ==
    IF chunks = <<>> THEN FALSE
    ELSE \E i \in 1..Len(chunks) : chunks[i].score > SIMILARITY_THRESHOLD

\* Retriever.has_confident_match
has_confident_match(chunks) ==
    IF chunks = <<>> THEN FALSE
    ELSE \E i \in 1..Len(chunks) : chunks[i].score >= SIMILARITY_THRESHOLD

\* What collection.query may return for n_results = k: the k nearest entries
\* (all of them when the collection holds fewer), nearest first.  Which
\* entries are near is decided by the embedding vectors, which the model
\* leaves open.
Distances == {0, 17, 18, MaxDistance}

StoreResults(items, k) ==
    LET n == Min(k, Cardinality(items))
    IN  {r \in [1..n -> [entry : items, distance : Distances]] :
            /\ \A i, j \in 1..n : i # j => r[i].entry # r[j].entry
            /\ \A i \in 1..n : i < n => r[i].distance <= r[i + 1].distance}

-----------------------------------------------------------------------------
(* ask_question *)

Fallback == "I don't have a reliable source to answer that question."
Completion == "completion"

\* The fixed system prompt of prompts.py
SYSTEM_PROMPT == "You are Ask Geo"

\* messages=[{system: SYSTEM_PROMPT}, {user: user_message}]
ChatMessages(user_message) ==
    <<[role |-> "system", content |-> SYSTEM_PROMPT],
      [role |-> "user", content |-> user_message]>>

\* The choices a chat completion returns: their texts, the first being the
\* one the handler reads.
ChatChoices == {<<Completion>>, <<Completion, "another completion">>}

\* The loop that extracts the unique sources: seen_urls and sources after
\* the chunks from position i on.
RECURSIVE SourcesFrom(_, _, _, _)
SourcesFrom(chunks, i, seen_urls, sources) ==
    IF i > Len(chunks) THEN sources
    ELSE IF chunks[i].url \notin seen_urls
         THEN SourcesFrom(chunks, i + 1, seen_urls \cup {chunks[i].url},
                          Append(sources, [url |-> chunks[i].url,
                                           title |-> chunks[i].title]))
         ELSE SourcesFrom(chunks, i + 1, seen_urls, sources)

\* One source per chunk: the seen_urls test left out.
UniqueSources_KeepsDuplicates(chunks) ==
    [i \in 1..Len(chunks) |-> [url |-> chunks[i].url, title |-> chunks[i].title]]

UniqueSources(chunks) == SourcesFrom(chunks, 1, {}, <<>>)

\* build_user_message: the context blocks, numbered from 1 in rank order.
build_user_message(chunks) ==
    [i \in 1..Len(chunks) |->
        [n |-> i, title |-> chunks[i].title, url |-> chunks[i].url,
         text |-> chunks[i].text]]

AskInit ==
    [pc |-> "idle", k |-> 0, handle |-> 0,
     \* what collection.query returned, and what query made of it
     results |-> <<>>, chunks |-> <<>>,
     embed_calls |-> 0, store_calls |-> 0, chat_calls |-> 0,
     confident |-> FALSE, prompt |-> <<>>, messages |-> <<>>, http |-> 0,
     err |-> None, answer |-> None, sources |-> <<>>]

Ks == {1, 2}

\* The request arrives and the Retriever is constructed: get_collection, or
\* None when that raises because there is no collection.
AskStart(k) ==
    /\ ask.pc \in {"idle", "done"}
    /\ ask' = [AskInit EXCEPT !.pc = "query", !.k = k,
                              !.handle = IF coll.exists THEN coll.id ELSE 0]
    /\ UNCHANGED <<docsFile, coll, collSeq, statusFile, statsFile, clock,
                   proc, started, resp>>

\* An exception that leaves ask_question: the framework answers 500.
AskFail(a, why) == [a EXCEPT !.pc = "done", !.http = 500, !.err = why]

\* query without its test for a missing collection.
AskQuery_NoNoneCheck ==
    /\ ask.pc = "query"
    /\ LET embedded == [ask EXCEPT !.embed_calls = @ + 1]
           queried == [embedded EXCEPT !.store_calls = @ + 1]
       IN  \/ ask' = AskFail(embedded, "embed")
           \/ ask' = AskFail(queried, "store")
           \/ /\ ~(coll.exists /\ coll.id = ask.handle)
              /\ ask' = AskFail(queried, "no collection")
           \/ /\ coll.exists /\ coll.id = ask.handle
              /\ \E results \in StoreResults(coll.items, ask.k) :
                   ask' = [queried EXCEPT !.results = results,
                                          !.chunks = FormatResults(results),
                                          !.pc = "gate"]
    /\ UNCHANGED <<docsFile, coll, collSeq, statusFile, statsFile, clock,
                   proc, started, resp>>

\* retriever.query(question, k)
AskQuery ==
    /\ ask.pc = "query"
    /\ IF ask.handle = 0
       THEN \* if not self.collection: return []
            ask' = [ask EXCEPT !.chunks = <<>>, !.pc = "gate"]
       ELSE LET embedded == [ask EXCEPT !.embed_calls = @ + 1]
                queried == [embedded EXCEPT !.store_calls = @ + 1]
            IN  \/ \* embed_query raises
                   ask' = AskFail(embedded, "embed")
                \/ \* collection.query raises: the store fails
                   ask' = AskFail(queried, "store")
                \/ \* collection.query raises: the collection behind the
                   \* handle was deleted
                   /\ ~(coll.exists /\ coll.id = ask.handle)
                   /\ ask' = AskFail(queried, "no collection")
                \/ /\ coll.exists /\ coll.id = ask.handle
                   /\ \E results \in StoreResults(coll.items, ask.k) :
                        ask' = [queried EXCEPT !.results = results,
                                          !.chunks = FormatResults(results),
                                               !.pc = "gate"]
    /\ UNCHANGED <<docsFile, coll, collSeq, statusFile, statsFile, clock,
                   proc, started, resp>>

\* The handler without its short-circuit: the prompt is built whatever the
\* gate says.
AskGate_AlwaysChat ==
    /\ ask.pc = "gate"
    /\ ask' = [ask EXCEPT !.pc = "chat", !.confident = has_confident_match(ask.chunks),
                          !.prompt = build_user_message(ask.chunks)]
    /\ UNCHANGED <<docsFile, coll, collSeq, statusFile, statsFile, clock,
                   proc, started, resp>>

\* if not retriever.has_confident_match(chunks): the fallback response;
\* otherwise the prompt is built.
AskGate ==
    /\ ask.pc = "gate"
    /\ IF ~has_confident_match(ask.chunks)
       THEN ask' = [ask EXCEPT !.pc = "done", !.http = 200, !.confident = FALSE,
                               !.answer = Fallback, !.sources = <<>>]
       ELSE ask' = [ask EXCEPT !.pc = "chat", !.confident = TRUE,
                               !.prompt = build_user_message(ask.chunks)]
    /\ UNCHANGED <<docsFile, coll, collSeq, statusFile, statsFile, clock,
                   proc, started, resp>>

\* The handler reading the last choice of the completion.
AskChat_LastChoice ==
    /\ ask.pc = "chat"
    /\ LET called == [ask EXCEPT !.chat_calls = @ + 1,
                                 !.messages = ChatMessages(ask.prompt)]
       IN  \/ ask' = AskFail(called, "chat")
           \/ \E choices \in ChatChoices :
                ask' = [called EXCEPT !.pc = "done", !.http = 200,
                                      !.answer = choices[Len(choices)],
                                      !.sources = UniqueSources(ask.chunks)]
    /\ UNCHANGED <<docsFile, coll, collSeq, statusFile, statsFile, clock,
                   proc, started, resp>>

\* The handler calling the chat API again when the call raised.
AskChat_Retries ==
    /\ ask.pc = "chat"
    /\ LET called == [ask EXCEPT !.chat_calls = @ + 1,
                                 !.messages = ChatMessages(ask.prompt)]
           again == [called EXCEPT !.chat_calls = @ + 1]
       IN  \/ ask' = AskFail(again, "chat")
           \/ \E choices \in ChatChoices :
                ask' = [called EXCEPT !.pc = "done", !.http = 200,
                                      !.answer = choices[1],
                                      !.sources = UniqueSources(ask.chunks)]
    /\ UNCHANGED <<docsFile, coll, collSeq, statusFile, statsFile, clock,
                   proc, started, resp>>

\* The chat completion, answer = response.choices[0].message.content, then
\* the unique sources.
AskChat ==
    /\ ask.pc = "chat"
    /\ LET called == [ask EXCEPT !.chat_calls = @ + 1,
                                 !.messages = ChatMessages(ask.prompt)]
       IN  \/ \* except Exception: raise HTTPException(status_code=500)
              ask' = AskFail(called, "chat")
           \/ \E choices \in ChatChoices :
                ask' = [called EXCEPT !.pc = "done", !.http = 200,
                                      !.answer = choices[1],
                                      !.sources = UniqueSources(ask.chunks)]
    /\ UNCHANGED <<docsFile, coll, collSeq, statusFile, statsFile, clock,
                   proc, started, resp>>

-----------------------------------------------------------------------------
(* The ingest status file *)

\* IngestStatus(status="idle"): the defaults of the model class
IdleStatus ==
    [status |-> "idle", pages_scraped |-> 0, chunks_indexed |-> 0,
     started_at |-> 0, completed_at |-> 0, error_message |-> None]

\* The file holds `data` when its state is "written".  `last` is not in the
\* file: it is the status of the latest record a save_status wrote in full
\* (idle before any), kept to tell the changes of the persisted status.
NoFile == [state |-> "absent", data |-> IdleStatus, last |-> "idle"]

\* load_status: idle when the file is missing, and when reading it raises
\* (the file was opened for writing, hence truncated, and not written yet).
load_status == IF statusFile.state = "written" THEN statusFile.data ELSE IdleStatus

\* save_status opens the file for writing, which truncates it ...
Truncated == [state |-> "truncated", data |-> IdleStatus, last |-> statusFile.last]
\* ... and json.dump writes the record.
Written(status) == [state |-> "written", data |-> status, last |-> status.status]

-----------------------------------------------------------------------------
(* POST /ingest/start *)

INGEST_MAX_PAGES == 600
\* request.max_pages: None (0 here), or within 10..2000
RequestMaxPages == {0, 10}

\* A response of the ingest router: of POST /ingest/start (its code and the
\* max_pages it echoes) or of GET /ingest/status (the record it read).
NoResp == [endpoint |-> None, code |-> 0, max_pages |-> 0, status |-> IdleStatus]

StartResp(code, max_pages) ==
    [NoResp EXCEPT !.endpoint = "start", !.code = code, !.max_pages = max_pages]

\* The background task is added to the response's tasks: it runs after the
\* response is sent, on a thread of the pool.
Schedule(p) == proc' = [proc EXCEPT ![p] = [ProcInit EXCEPT !.pc = "scheduled"]]

FreeThreads == {p \in Tasks : proc[p].pc = "idle"}

\* start_ingest without its check of the current status.
start_ingest_NoCheck(req_max_pages) ==
    /\ started < MaxStarted
    /\ FreeThreads # {}
    /\ started' = started + 1
    /\ Schedule(CHOOSE p \in FreeThreads : \A q \in FreeThreads : p <= q)
    /\ resp' = StartResp(200, IF req_max_pages # 0 THEN req_max_pages
                               ELSE INGEST_MAX_PAGES)
    /\ UNCHANGED <<docsFile, coll, collSeq, statusFile, statsFile, clock, ask>>

start_ingest(req_max_pages) ==
    LET current_status == load_status
        max_pages == IF req_max_pages # 0 THEN req_max_pages ELSE INGEST_MAX_PAGES
    IN  IF current_status.status = "running"
        THEN /\ resp' = StartResp(409, 0)
             /\ UNCHANGED <<docsFile, coll, collSeq, statusFile, statsFile, clock,
                            proc, started, ask>>
        ELSE /\ started < MaxStarted
             /\ FreeThreads # {}
             /\ started' = started + 1
             /\ Schedule(CHOOSE p \in FreeThreads : \A q \in FreeThreads : p <= q)
             /\ resp' = StartResp(200, max_pages)
             /\ UNCHANGED <<docsFile, coll, collSeq, statusFile, statsFile, clock, ask>>

\* GET /ingest/status: return load_status()
get_ingest_status ==
    /\ resp' = [NoResp EXCEPT !.endpoint = "status", !.code = 200,
                              !.status = load_status]
    /\ UNCHANGED <<docsFile, coll, collSeq, statusFile, statsFile, clock,
                   proc, started, ask>>

\* A server that marks an interrupted run as failed when it starts.
Restart_Recovers ==
    /\ \E p \in Tasks : proc[p].pc # "idle"
    /\ proc' = [p \in Procs |-> IF p \in Tasks THEN ProcInit ELSE proc[p]]
    /\ resp' = NoResp
    /\ ask' = AskInit
    /\ statusFile' = IF load_status.status = "running"
                      THEN Written([load_status EXCEPT !.status = "error"])
                      ELSE statusFile
    /\ UNCHANGED <<docsFile, coll, collSeq, statsFile, clock, started>>

\* The server process terminates and is started again: its threads and the
\* requests it was serving are gone, the files and the store stay.
Restart ==
    /\ \E p \in Tasks : proc[p].pc # "idle"
    /\ proc' = [p \in Procs |-> IF p \in Tasks THEN ProcInit ELSE proc[p]]
    /\ resp' = NoResp
    /\ ask' = AskInit
    /\ UNCHANGED <<docsFile, coll, collSeq, statusFile, statsFile, clock, started>>

-----------------------------------------------------------------------------
(* run_ingest_task *)

\* The pages the site serves, in crawl order (the site is smaller than any
\* max_pages a request may ask for); a crawl returns the pages it could
\* fetch: here all of them or none.
SitePages == <<[url |-> "https://x.edu/lib", title |-> "Library", ntokens |-> 2 * CHUNK_SIZE],
               [url |-> "https://x.edu/about", title |-> None, ntokens |-> CHUNK_SIZE + 1]>>

ScrapeResults == {<<>>, SitePages}

\* The status record the task holds in its local `status`.
RunningStatus(p) == [IdleStatus EXCEPT !.status = "running",
                                       !.started_at = proc[p].started_at]

DoneStatus(p) == [IdleStatus EXCEPT !.status = "done",
                                    !.pages_scraped = proc[p].pages_scraped,
                                    !.chunks_indexed = proc[p].stats.total_chunks,
                                    !.started_at = proc[p].started_at,
                                    !.completed_at = proc[p].completed_at]

ErrorStatus(p) == [IdleStatus EXCEPT !.status = "error",
                                     !.started_at = proc[p].started_at,
                                     !.completed_at = proc[p].completed_at,
                                     !.error_message = proc[p].err]

\* status = IngestStatus(status="running", started_at=now); save_status
\* opens the file.
TaskBegin(p) ==
    /\ proc[p].pc = "scheduled"
    /\ proc' = [proc EXCEPT ![p].started_at = clock, ![p].pc = "w_running"]
    /\ clock' = clock + 1
    /\ statusFile' = Truncated
    /\ UNCHANGED <<docsFile, coll, collSeq, statsFile, started, resp, ask>>

\* json.dump of save_status(status) for the running record.
TaskWriteRunning(p) ==
    /\ proc[p].pc = "w_running"
    /\ statusFile' = Written(RunningStatus(p))
    /\ proc' = [proc EXCEPT ![p].pc = "scrape"]
    /\ UNCHANGED <<docsFile, coll, collSeq, statsFile, clock, started, resp, ask>>

\* docs = scraper.scrape(); scraper.save_to_jsonl(docs, data_path)
TaskScrape(p) ==
    /\ proc[p].pc = "scrape"
    /\ \/ /\ proc' = [proc EXCEPT ![p].pc = "raised", ![p].err = "scrape"]
          /\ UNCHANGED docsFile
       \/ \E docs \in ScrapeResults :
            /\ docsFile' = docs
            /\ proc' = [proc EXCEPT ![p].pages_scraped = Len(docs), ![p].pc = "load"]
    /\ UNCHANGED <<coll, collSeq, statusFile, statsFile, clock, started, resp, ask>>

\* builder.save_stats(stats, stats_path), then the done record and the
\* opening of the status file.
TaskDone(p) ==
    /\ proc[p].pc = "built"
    /\ statsFile' = proc[p].stats
    /\ proc' = [proc EXCEPT ![p].completed_at = clock, ![p].pc = "w_done"]
    /\ statusFile' = Truncated
    /\ UNCHANGED <<docsFile, coll, collSeq, clock, started, resp, ask>>

TaskWriteDone(p) ==
    /\ proc[p].pc = "w_done"
    /\ statusFile' = Written(DoneStatus(p))
    /\ proc' = [proc EXCEPT ![p] = ProcInit]
    /\ UNCHANGED <<docsFile, coll, collSeq, statsFile, clock, started, resp, ask>>

\* A task without its except branch: the exception ends the task.
TaskError_NoHandler(p) ==
    /\ proc[p].pc = "raised"
    /\ proc' = [proc EXCEPT ![p] = ProcInit]
    /\ UNCHANGED <<docsFile, coll, collSeq, statusFile, statsFile, clock,
                   started, resp, ask>>

\* except Exception as e: the error record and the opening of the status file.
TaskError(p) ==
    /\ proc[p].pc = "raised"
    /\ proc' = [proc EXCEPT ![p].completed_at = clock, ![p].pc = "w_error"]
    /\ statusFile' = Truncated
    /\ UNCHANGED <<docsFile, coll, collSeq, statsFile, clock, started, resp, ask>>

TaskWriteError(p) ==
    /\ proc[p].pc = "w_error"
    /\ statusFile' = Written(ErrorStatus(p))
    /\ proc' = [proc EXCEPT ![p] = ProcInit]
    /\ UNCHANGED <<docsFile, coll, collSeq, statsFile, clock, started, resp, ask>>

-----------------------------------------------------------------------------
(* Specifications *)

InitShared ==
    /\ coll = NoColl
    /\ collSeq = 0
    /\ statusFile = NoFile
    /\ statsFile = NoStats
    /\ clock = 1
    /\ proc = [p \in Procs |-> ProcInit]
    /\ started = 0
    /\ resp = NoResp

\* The server: the ingestion endpoints and the background tasks.
Init ==
    /\ InitShared
    /\ docsFile = <<>>
    /\ ask = AskInit

Next ==
    \/ \E m \in RequestMaxPages : start_ingest(m)
    \/ \E p \in Tasks :
        \/ TaskBegin(p)
        \/ TaskWriteRunning(p)
        \/ TaskScrape(p)
        \/ BuildLoad(p)
        \/ BuildDelete(p)
        \/ BuildCreate(p)
        \/ BuildBatch(p)
        \/ BuildReturn(p)
        \/ TaskDone(p)
        \/ TaskWriteDone(p)
        \/ TaskError(p)
        \/ TaskWriteError(p)

Spec == Init /\ [][Next]_vars

\* A task that was scheduled runs on its thread of the pool until it
\* returns: none of its steps waits for anything but a call that returns or
\* raises.
TaskStep(p) ==
    \/ TaskBegin(p)
    \/ TaskWriteRunning(p)
    \/ TaskScrape(p)
    \/ BuildLoad(p)
    \/ BuildDelete(p)
    \/ BuildCreate(p)
    \/ BuildBatch(p)
    \/ BuildReturn(p)
    \/ TaskDone(p)
    \/ TaskWriteDone(p)
    \/ TaskError(p)
    \/ TaskWriteError(p)

SpecLive == Init /\ [][Next]_vars /\ \A p \in Tasks : WF_vars(TaskStep(p))

\* The server when no start request arrives while a task is scheduled but
\* has not written 'running' yet, or is rewriting the status file: the runs
\* follow one another.
NextSerial ==
    \/ /\ \A p \in Tasks : proc[p].pc \notin {"scheduled", "w_running", "w_done", "w_error"}
       /\ \E m \in RequestMaxPages : start_ingest(m)
    \/ \E p \in Tasks :
        \/ TaskBegin(p)
        \/ TaskWriteRunning(p)
        \/ TaskScrape(p)
        \/ BuildLoad(p)
        \/ BuildDelete(p)
        \/ BuildCreate(p)
        \/ BuildBatch(p)
        \/ BuildReturn(p)
        \/ TaskDone(p)
        \/ TaskWriteDone(p)
        \/ TaskError(p)
        \/ TaskWriteError(p)

SpecSerial == Init /\ [][NextSerial]_vars

\* The server whose runs follow one another, with its status polls.
NextPolled ==
    \/ NextSerial
    \/ get_ingest_status

SpecPolled == Init /\ [][NextPolled]_vars

\* The server with its restarts.
NextRestart ==
    \/ Next
    \/ Restart

SpecRestart == Init /\ [][NextRestart]_vars

\* The server with its status polls and its restarts.
NextOps ==
    \/ Next
    \/ get_ingest_status
    \/ Restart

SpecOps == Init /\ [][NextOps]_vars

\* The server answering questions while the command line rebuilds the index
\* over the store the two processes share.
NextServe ==
    \/ \E docs \in ScrapeResults : CliScrape(docs)
    \/ \E reset \in BOOLEAN : CliStart(reset)
    \/ BuildLoad(Cli)
    \/ BuildDelete(Cli)
    \/ BuildCreate(Cli)
    \/ BuildBatch(Cli)
    \/ BuildReturn(Cli)
    \/ CliSaveStats
    \/ CliCrash
    \/ \E k \in Ks : AskStart(k)
    \/ AskQuery
    \/ AskGate
    \/ AskChat

SpecServe == Init /\ [][NextServe]_vars

\* The command line: scrapes and index builds, one after the other.
InitBuild ==
    /\ InitShared
    /\ docsFile \in SeqsUpTo(Documents, MaxDocs)
    /\ ask = AskInit

NextBuild ==
    \/ \E docs \in SeqsUpTo(Documents, MaxDocs) : CliScrape(docs)
    \/ \E reset \in BOOLEAN : CliStart(reset)
    \/ BuildLoad(Cli)
    \/ BuildDelete(Cli)
    \/ BuildCreate(Cli)
    \/ BuildBatch(Cli)
    \/ BuildReturn(Cli)
    \/ CliSaveStats
    \/ CliCrash

SpecBuild == InitBuild /\ [][NextBuild]_vars

\* The command line over document stores that fill whole batches and more:
\* pages of half a batch of chunks, and of one token more than that.  The
\* stores hold no chunk, one batch, one batch and a chunk, and two batches
\* and a chunk.
Page(name, ntokens) ==
    [url |-> "https://x.edu/" \o name, title |-> name, ntokens |-> ntokens]

HalfBatch == (BATCH_SIZE \div 2) * CHUNK_SIZE

LargeStores ==
    {<<>>,
     <<Page("a", HalfBatch), Page("b", HalfBatch)>>,
     <<Page("a", HalfBatch), Page("b", HalfBatch + 1)>>,
     <<Page("a", HalfBatch + 1), Page("b", HalfBatch), Page("c", HalfBatch),
       Page("d", HalfBatch)>>}

InitBatch ==
    /\ InitShared
    /\ docsFile \in LargeStores
    /\ ask = AskInit

NextBatch ==
    \/ \E docs \in LargeStores : CliScrape(docs)
    \/ \E reset \in BOOLEAN : CliStart(reset)
    \/ BuildLoad(Cli)
    \/ BuildDelete(Cli)
    \/ BuildCreate(Cli)
    \/ BuildBatch(Cli)
    \/ BuildReturn(Cli)
    \/ CliSaveStats
    \/ CliCrash

SpecBatch == InitBatch /\ [][NextBatch]_vars

\* ask_question over a stubbed retriever, as the tests of the endpoint run
\* it: query returns the chunks the stub was given.
Scores == {0, SIMILARITY_THRESHOLD - 1, SIMILARITY_THRESHOLD, ScoreUnit}

RetrievedChunks ==
    [text : {<<0, CHUNK_SIZE>>}, url : {"https://x.edu/lib", "https://x.edu/about"},
     title : {Untitled, "Library"}, score : Scores]

InitAsk ==
    /\ InitShared
    /\ docsFile = <<>>
    /\ \E chunks \in SeqsUpTo(RetrievedChunks, MaxChunks), k \in Ks :
         ask = [AskInit EXCEPT !.pc = "gate", !.k = k, !.chunks = chunks]

NextAsk ==
    \/ AskGate
    \/ AskChat

SpecAsk == InitAsk /\ [][NextAsk]_vars

-----------------------------------------------------------------------------
(* Properties *)

\* The background tasks between their 'running' write and their 'done' or
\* 'error' write.
InRun == {"scrape", "load", "delete", "create", "batch", "built", "raised",
          "w_done", "w_error"}

RunsInProgress == {p \in Tasks : proc[p].pc \in InRun}

\* C1: at most one ingestion run executes at a time: no two run_ingest_task
\* executions are both between their 'running' write and their 'done' or
\* 'error' write.
C1_AtMostOneRun == Cardinality(RunsInProgress) <= 1

\* C2: when the persisted status is 'running', a start request is answered
\* 409, schedules no task and leaves the status file as it was.
C2_RunningStartRejected ==
    [][(/\ resp' # resp
        /\ resp'.endpoint = "start"
        /\ statusFile.state = "written"
        /\ statusFile.data.status = "running")
         => /\ resp'.code = 409
            /\ proc' = proc
            /\ started' = started
            /\ statusFile' = statusFile]_vars

\* A start request was rejected while the persisted status is 'running'.
C2_Witness ==
    /\ resp.code = 409
    /\ statusFile.state = "written"
    /\ statusFile.data.status = "running"
    /\ RunsInProgress # {}

NoChunkMeetsThreshold(chunks) ==
    \A i \in 1..Len(chunks) : chunks[i].score < SIMILARITY_THRESHOLD

\* C3: when no retrieved chunk meets the threshold (an empty retrieval
\* included), the request ends without any chat call, with the fallback
\* answer and no sources.
C3_FallbackShortCircuit ==
    (ask.pc \in {"chat", "done"} /\ NoChunkMeetsThreshold(ask.chunks))
        => /\ ask.pc = "done"
           /\ ask.chat_calls = 0
           /\ ask.http = 200
           /\ ask.answer = Fallback
           /\ ask.sources = <<>>

\* A request over a non-empty retrieval below the threshold was answered.
C3_Witness ==
    /\ ask.pc = "done"
    /\ ask.chunks # <<>>
    /\ NoChunkMeetsThreshold(ask.chunks)
    /\ ask.answer = Fallback

CeilDiv(n, d) == (n + d - 1) \div d

\* The ids of the chunks of the document at position p (0-based) with n tokens.
ExpectedPageIds(p, n) ==
    [c \in 1..CeilDiv(n, CHUNK_SIZE) |-> ToString(p) \o "-" \o ToString(c - 1)]

RECURSIVE ExpectedIdsFrom(_, _)
ExpectedIdsFrom(documents, p) ==
    IF p >= Len(documents) THEN <<>>
    ELSE ExpectedPageIds(p, documents[p + 1].ntokens) \o ExpectedIdsFrom(documents, p + 1)

ExpectedIds(documents) == ExpectedIdsFrom(documents, 0)

Range(f) == {f[i] : i \in DOMAIN f}

\* C4: when build_index(reset=True) returns, the ids in the collection are
\* exactly the ids of the chunks of the documents it loaded, whatever the
\* collection held before; and build_index raises only where the store or
\* the embedding API failed it, never for a collection that is not there
\* to delete.
C4_RebuildLeavesNoLeftovers ==
    /\ (proc[Cli].pc = "built" /\ proc[Cli].reset)
          => ItemIds(coll.items) = Range(ExpectedIds(proc[Cli].documents))
    /\ proc[Cli].pc = "raised" => proc[Cli].err \in {"embed", "store", "duplicate id"}

\* The position of the first chunk with this url.
FirstWith(chunks, url) ==
    CHOOSE i \in 1..Len(chunks) :
        /\ chunks[i].url = url
        /\ \A j \in 1..(i - 1) : chunks[j].url # url

ConfidentAnswer == ask.pc = "done" /\ ask.http = 200 /\ ask.answer = Completion

\* C5: on the confident path the sources hold each distinct url of the
\* retrieved chunks once, in the order of the urls' first occurrences, each
\* with the title of its first occurrence.
C5_SourcesDeduplicated ==
    ConfidentAnswer =>
        LET chunks == ask.chunks
            sources == ask.sources
        IN  /\ {sources[j].url : j \in 1..Len(sources)}
                  = {chunks[i].url : i \in 1..Len(chunks)}
            /\ \A j, l \in 1..Len(sources) :
                  j < l => FirstWith(chunks, sources[j].url)
                               < FirstWith(chunks, sources[l].url)
            /\ \A j \in 1..Len(sources) :
                  sources[j].title = chunks[FirstWith(chunks, sources[j].url)].title

\* An answer over chunks whose first url comes back third under another
\* title, and whose scores do not fall with the rank.
C5_Witness ==
    /\ ConfidentAnswer
    /\ Len(ask.chunks) = 3
    /\ ask.chunks[1].url = ask.chunks[3].url
    /\ ask.chunks[1].url # ask.chunks[2].url
    /\ ask.chunks[1].title # ask.chunks[3].title
    /\ ask.chunks[1].score < ask.chunks[2].score

\* C6: has_confident_match is true exactly when the chunks are not empty and
\* some score is at least the threshold.
C6_ConfidenceGate ==
    ask.pc \in {"chat", "done"} =>
        (ask.confident <=>
            /\ ask.chunks # <<>>
            /\ \E i \in 1..Len(ask.chunks) :
                  ask.chunks[i].score >= SIMILARITY_THRESHOLD)

\* The gate passed on one chunk exactly at the threshold, the others below.
C6_Witness ==
    /\ ask.pc \in {"chat", "done"}
    /\ ask.confident
    /\ Len(ask.chunks) > 1
    /\ \E i \in 1..Len(ask.chunks) :
          /\ ask.chunks[i].score = SIMILARITY_THRESHOLD
          /\ \A j \in 1..Len(ask.chunks) :
                j # i => ask.chunks[j].score < SIMILARITY_THRESHOLD

\* The chunks of the page at this index, in order.
PageChunks(all_chunks, page_idx) ==
    SelectSeq(all_chunks, LAMBDA c : c.metadata.page_index = page_idx)

\* The build has chunked its documents: it is in its batch loop, has
\* returned, or has raised from the loop.
Chunked ==
    \/ proc[Cli].pc \in {"batch", "built"}
    \/ proc[Cli].pc = "raised" /\ proc[Cli].handle # 0

\* C7: a text of n tokens gives ceil(n / CHUNK_SIZE) chunks whose windows
\* cover the tokens in order without gap or overlap, each of CHUNK_SIZE
\* tokens but possibly the last, each with its window's length as
\* token_count; no tokens, no chunks.
C7_ChunkCoverage ==
    Chunked =>
        \A p \in 1..Len(proc[Cli].documents) :
            LET n == proc[Cli].documents[p].ntokens
                cs == PageChunks(proc[Cli].all_chunks, p - 1)
            IN  /\ Len(cs) = CeilDiv(n, CHUNK_SIZE)
                /\ n = 0 => cs = <<>>
                /\ cs # <<>> => cs[1].text[1] = 0 /\ cs[Len(cs)].text[2] = n
                /\ \A i \in 1..Len(cs) :
                      /\ i < Len(cs) => cs[i + 1].text[1] = cs[i].text[2]
                      /\ i < Len(cs) => cs[i].text[2] - cs[i].text[1] = CHUNK_SIZE
                      /\ cs[i].text[2] - cs[i].text[1] \in 1..CHUNK_SIZE
                      /\ cs[i].token_count = cs[i].text[2] - cs[i].text[1]
                      /\ cs[i].metadata.token_count = cs[i].token_count

\* A batch with a text that ends in a shorter window and a text of no tokens.
C7_Witness ==
    /\ Chunked
    /\ \E p, q \in 1..Len(proc[Cli].documents) :
          /\ proc[Cli].documents[p].ntokens % CHUNK_SIZE # 0
          /\ proc[Cli].documents[q].ntokens = 0

\* C8: the ids build_index computes are pairwise distinct: they are, in
\* document order then chunk order, "p-0" .. "p-(ceil(n/CHUNK_SIZE)-1)" for
\* the document at position p with n tokens.
C8_ChunkIds ==
    /\ Chunked =>
          LET expected == ExpectedIds(proc[Cli].documents)
              ids == proc[Cli].ids
          IN  /\ Len(ids) <= Len(expected)
              /\ ids = SubSeq(expected, 1, Len(ids))
              /\ \A i, j \in 1..Len(ids) : i # j => ids[i] # ids[j]
    /\ proc[Cli].pc = "built" =>
          proc[Cli].ids = ExpectedIds(proc[Cli].documents)

\* The build over two documents of 700 tokens computed "0-0" .. "1-1".
C8_Witness ==
    /\ proc[Cli].pc = "built"
    /\ Len(proc[Cli].documents) = 2
    /\ \A p \in 1..2 : proc[Cli].documents[p].ntokens = 2 * CHUNK_SIZE
    /\ proc[Cli].ids = <<"0-0", "0-1", "1-0", "1-1">>

\* C9: a Retriever constructed while there is no collection answers every
\* query with the empty sequence, raising nothing and calling neither the
\* embedding API nor the store.
C9_NoCollectionEmptyResult ==
    (ask.handle = 0 /\ ask.pc \in {"gate", "chat", "done"})
        => /\ ask.chunks = <<>>
           /\ ask.err = None
           /\ ask.embed_calls = 0
           /\ ask.store_calls = 0

\* Such a request ended, the collection having been built since.
C9_Witness ==
    /\ ask.pc = "done"
    /\ ask.handle = 0
    /\ coll.exists
    /\ coll.items # {}

\* C10: whatever a rebuild does meanwhile, a request never fails because the
\* collection is absent: it ends with the fallback or a grounded answer
\* unless the embedding, store or chat service itself failed.
C10_MissingCollectionNeverFails ==
    ask.pc = "done" =>
        /\ ask.err # "no collection"
        /\ ask.err = None => ask.http = 200 /\ ask.answer \in {Fallback, Completion}

\* C11: when the gate passes, the request calls the chat API exactly once,
\* after the retrieval and the gate, with the system prompt and the user
\* message built from the retrieved chunks; an answer it returns is the first
\* choice's text, with at least one source.
C11_ChatOnceWhenConfident ==
    /\ ask.pc \in {"idle", "query", "gate", "chat"} => ask.chat_calls = 0
    /\ ask.chat_calls # 0 =>
          /\ ask.chat_calls = 1
          /\ has_confident_match(ask.chunks)
          /\ ask.embed_calls = 1 /\ ask.store_calls = 1
          /\ ask.messages = <<[role |-> "system", content |-> SYSTEM_PROMPT],
                              [role |-> "user",
                               content |-> build_user_message(ask.chunks)]>>
    /\ (ask.pc = "done" /\ has_confident_match(ask.chunks)) =>
          /\ ask.chat_calls = 1
          /\ ask.http = 200 => ask.answer = Completion /\ ask.sources # <<>>

\* The scenario of one retrieved chunk of the library page, above the
\* threshold: one chat call, one source.
C11_Witness ==
    /\ ask.pc = "done"
    /\ ask.http = 200
    /\ Len(ask.chunks) = 1
    /\ has_confident_match(ask.chunks)
    /\ ask.chat_calls = 1
    /\ ask.sources = <<[url |-> "https://x.edu/lib", title |-> "Library"]>>

\* C12: a chat call that raises ends the request with HTTP 500, no answer
\* and no sources, after that one call and no other, and the step changes
\* neither the collection nor the status file.
C12_ChatFailureFailsClosed ==
    [][(ask.pc = "chat" /\ ask'.err = "chat")
         => /\ ask'.pc = "done"
            /\ ask'.http = 500
            /\ ask'.answer = None
            /\ ask'.sources = <<>>
            /\ ask'.chat_calls = 1
            /\ coll' = coll
            /\ collSeq' = collSeq
            /\ statusFile' = statusFile
            /\ statsFile' = statsFile
            /\ docsFile' = docsFile]_vars

\* A request over a built collection ended by a failed chat call.
C12_Witness ==
    /\ ask.pc = "done"
    /\ ask.err = "chat"
    /\ ask.http = 500
    /\ ask.chat_calls = 1
    /\ coll.exists
    /\ coll.items # {}

\* The background tasks whose run has failed.
Stopped == {"raised", "w_error"}

\* C13: a failure of the scrape, of the embedding or of a store call stops
\* the run where it happened: the task embeds and stores nothing more, and
\* the record it then writes has status 'error', the failure's message, the
\* started_at of its running record and a completed_at.
C13_FailureRecordsError ==
    /\ [](\A p \in Tasks :
            (proc[p].delete_raised \/ proc[p].err # None) => proc[p].pc \in Stopped)
    /\ [][\A p \in Tasks :
            /\ (proc[p].pc \in Stopped /\ proc'[p] # proc[p]) =>
                  /\ proc[p].pc = "raised" =>
                        /\ proc'[p].pc = "w_error"
                        /\ proc'[p].embed_calls = proc[p].embed_calls
                  /\ proc[p].pc = "w_error" =>
                        /\ statusFile'.state = "written"
                        /\ statusFile'.data.status = "error"
                        /\ statusFile'.data.error_message = proc[p].err
                        /\ statusFile'.data.error_message # None
                        /\ statusFile'.data.started_at = proc[p].started_at
                        /\ statusFile'.data.started_at # 0
                        /\ statusFile'.data.completed_at # 0
                  /\ coll' = coll]_vars

StatusChanges ==
    {<<from, "running">> : from \in {"idle", "done", "error"}}
        \cup {<<"running", "done">>, <<"running", "error">>}

\* C14: only the steps of an ingestion task change the status file, never
\* a start request or a status poll; and the persisted status changes only
\* from a value other than running to running, from running to done and
\* from running to error.
C14_StatusTransitions ==
    [][/\ statusFile' # statusFile =>
            /\ resp' = resp
            /\ \E p \in Tasks : proc'[p] # proc[p]
       /\ statusFile'.last # statusFile.last =>
            <<statusFile.last, statusFile'.last>> \in StatusChanges]_vars

\* C15: a query over an existing collection makes one embedding call and
\* one store call and returns one chunk per result of the store, in the
\* store's order, each with the result's text, url and title: at most k of
\* them, none dropped for its score or for a url already seen.
C15_QueryKeepsStoreOrder ==
    /\ ask.embed_calls <= 1
    /\ ask.store_calls <= ask.embed_calls
    /\ (ask.pc \in {"gate", "chat", "done"} /\ ask.handle # 0
          /\ ask.err \notin {"embed", "store", "no collection"}) =>
          /\ ask.embed_calls = 1
          /\ ask.store_calls = 1
          /\ Len(ask.chunks) <= ask.k
          /\ Len(ask.chunks) = Len(ask.results)
          /\ \A i \in 1..Len(ask.results) :
                /\ ask.chunks[i].text = ask.results[i].entry.document
                /\ ask.chunks[i].url = ask.results[i].entry.metadata.url
                /\ ask.chunks[i].title = ask.results[i].entry.metadata.title

\* A query for two results got two chunks of one page, the second far below
\* the threshold, and kept both.
C15_Witness ==
    /\ ask.pc \in {"gate", "chat", "done"}
    /\ ask.k = 2
    /\ Len(ask.results) = 2
    /\ Len(ask.chunks) = 2
    /\ ask.chunks[1].url = ask.chunks[2].url
    /\ ask.chunks[1].score >= SIMILARITY_THRESHOLD
    /\ ask.chunks[2].score = 0
    /\ Cardinality(coll.items) > 2

\* C16: the score of a distance d >= 0 is max(0, 1 - d^2/4): within 0..1,
\* 1 at distance 0, 0 from distance 2 on, never larger for a larger
\* distance; so the scores of the chunks a query returns, which carry the
\* scores of the store's distances, never rise along the list.
C16_SimilarityScore ==
    /\ \A d \in 0..MaxDistance :
          /\ Similarity(d) \in 0..ScoreUnit
          /\ d = 0 => Similarity(d) = ScoreUnit
          /\ d >= 2 * 10 => Similarity(d) = 0
          /\ d < 2 * 10 => Similarity(d) = ScoreUnit - d * d
    /\ \A d1, d2 \in 0..MaxDistance :
          d1 <= d2 => Similarity(d1) >= Similarity(d2)
    /\ Len(ask.chunks) = Len(ask.results) =>
          /\ \A i \in 1..Len(ask.chunks) :
                /\ ask.results[i].distance \in 0..MaxDistance
                /\ ask.chunks[i].score = Similarity(ask.results[i].distance)
          /\ \A i, j \in 1..Len(ask.chunks) :
                i <= j => ask.chunks[i].score >= ask.chunks[j].score

\* A query returned a result at distance 0 and one beyond distance 2.
C16_Witness ==
    /\ Len(ask.results) = 2
    /\ Len(ask.chunks) = 2
    /\ ask.results[1].distance = 0
    /\ ask.results[2].distance > 2 * 10
    /\ ask.chunks[1].score = ScoreUnit
    /\ ask.chunks[2].score = 0

\* The id, the vector, the text and the metadata of an entry are those of
\* one chunk.
Aligned(e) ==
    /\ e.id = ToString(e.metadata.page_index) \o "-" \o ToString(e.metadata.chunk_index)
    /\ e.embedding = [vec_of |-> e.document]
    /\ e.document[1] = e.metadata.chunk_index * CHUNK_SIZE
    /\ e.document[2] - e.document[1] = e.metadata.token_count

\* C17: the batch loop takes the chunks in consecutive batches of
\* BATCH_SIZE, the last one possibly shorter, every chunk in one batch;
\* it calls the embedding API once per batch, ceil(total / BATCH_SIZE) times
\* by its return; a batch is in the collection before the next one is
\* embedded; and the lists handed to the collection are aligned.
C17_Batching ==
    LET b == proc[Cli]
        total == Len(b.all_chunks)
        done == Min(b.batch_start, total)
    IN  /\ Len(b.batches) = b.embed_calls
        /\ \A i \in 1..Len(b.batches) :
              /\ b.batches[i][1] = (i - 1) * BATCH_SIZE
              /\ b.batches[i][2] = Min(i * BATCH_SIZE, total)
              /\ b.batches[i][2] - b.batches[i][1] \in 1..BATCH_SIZE
        /\ b.pc = "batch" =>
              /\ b.batch_start = b.embed_calls * BATCH_SIZE
              /\ Len(b.ids) = done
              /\ \A i \in 1..done :
                    /\ b.ids[i] = ChunkId(b.all_chunks[i].metadata)
                    /\ b.ids[i] \in ItemIds(coll.items)
        /\ b.pc = "built" =>
              /\ b.embed_calls = CeilDiv(total, BATCH_SIZE)
              /\ total = 0 => b.embed_calls = 0
              /\ total > 0 => b.batches[Len(b.batches)][2] = total
              /\ Len(b.ids) = total
              /\ \A i \in 1..total : b.ids[i] \in ItemIds(coll.items)
        /\ \A e \in coll.items : Aligned(e)

\* A build of three batches, each across two pages and the third of one
\* chunk, returned.
C17_Witness ==
    /\ proc[Cli].pc = "built"
    /\ Len(proc[Cli].all_chunks) = 2 * BATCH_SIZE + 1
    /\ proc[Cli].batches = <<<<0, BATCH_SIZE>>, <<BATCH_SIZE, 2 * BATCH_SIZE>>,
                             <<2 * BATCH_SIZE, 2 * BATCH_SIZE + 1>>>>
    /\ proc[Cli].embed_calls = 3
    /\ Cardinality(coll.items) = 2 * BATCH_SIZE + 1

\* What the collection holds of the first n chunks of a pass.
EntriesOf(all_chunks, n) == BatchEntries(SubSeq(all_chunks, 1, n))

\* C18: when a reset rebuild raises in its batch loop, at the batch that
\* starts at batch_start, the collection holds the chunks of the batches
\* before it, of this pass, and nothing else: nothing of an earlier pass,
\* nothing of the failed batch or of a later one; and build_index has
\* returned no stats.
C18_PartialRebuild ==
    (proc[Cli].pc = "raised" /\ proc[Cli].reset /\ proc[Cli].batches # <<>>) =>
        /\ proc[Cli].batch_start = (Len(proc[Cli].batches) - 1) * BATCH_SIZE
        /\ coll.items = EntriesOf(proc[Cli].all_chunks, proc[Cli].batch_start)
        /\ proc[Cli].stats = NoStats

\* C19: while the process lives and every call returns or raises, a task
\* that has written 'running' goes on to its last write and returns, and a
\* persisted 'running' is followed by a persisted 'done' or 'error'.
C19_RunsEnd ==
    /\ \A p \in Tasks : (proc[p].pc = "scrape") ~> (proc[p].pc = "idle")
    /\ (statusFile.last = "running") ~> (statusFile.last \in {"done", "error"})

\* Both runs are over, the later one having raised and written 'error'.
C19_Witness ==
    /\ started >= 2
    /\ \A p \in Tasks : proc[p].pc = "idle"
    /\ statusFile.state = "written"
    /\ statusFile.data.status = "error"
    /\ statusFile.data.started_at > 1

\* The status file holds 'running' and no task is alive to change it: the
\* process was restarted during a run.
Orphaned ==
    /\ \A p \in Tasks : proc[p].pc = "idle"
    /\ statusFile.state = "written"
    /\ statusFile.data.status = "running"

\* C20: a persisted 'running' is replaced only by the terminal write of an
\* ingestion task, which wrote 'running' before; after a restart during a
\* run the file still holds 'running', load_status reads 'running', every
\* start request is answered 409 and schedules nothing, and this stays so.
C20_RunningSurvivesRestart ==
    [][/\ (statusFile.last = "running" /\ statusFile'.last # "running") =>
            \E p \in Tasks :
                /\ proc[p].pc \in {"w_done", "w_error"}
                /\ proc[p].started_at # 0
                /\ proc'[p].pc = "idle"
       /\ Orphaned =>
            /\ Orphaned'
            /\ statusFile' = statusFile
            /\ proc' = proc
            /\ started' = started
            /\ load_status.status = "running"
            /\ resp' # resp => resp'.endpoint = "start" /\ resp'.code = 409]_vars

\* After a restart during a run, with a run still allowed by the bound, a
\* start request was answered 409.
C20_Witness ==
    /\ Orphaned
    /\ started < MaxStarted
    /\ resp.endpoint = "start"
    /\ resp.code = 409

\* C21: a read of the status returns the status last written: a status poll
\* answers with it, and a start request that finds 'running' written last
\* is answered 409; so once a run has written 'running' no read returns
\* 'idle', not even one that falls between the truncation and the write of
\* a save_status.
C21_ReadsSeeLastWrite ==
    [][resp' # resp =>
          /\ resp'.endpoint = "status" =>
                /\ resp'.status.status = statusFile.last
                /\ statusFile.last # "idle" => resp'.status.status # "idle"
          /\ (resp'.endpoint = "start" /\ statusFile.last = "running") =>
                resp'.code = 409]_vars

\* C22: when a task writes the 'done' record, the chunks_indexed of the
\* record is the number of chunks the collection holds at that moment and
\* the total_chunks of the stats build_index returned, and its pages_scraped
\* is the number of documents build_index loaded from the document store.
C22_DoneCounts ==
    [][\A p \in Tasks :
          (proc[p].pc = "w_done" /\ TaskWriteDone(p)) =>
              /\ statusFile'.data.status = "done"
              /\ statusFile'.data.chunks_indexed = proc[p].stats.total_chunks
              /\ statusFile'.data.chunks_indexed = Cardinality(coll'.items)
              /\ statusFile'.data.pages_scraped = Len(proc[p].documents)]_vars

=============================================================================
